---- MODULE Spec2Model ----
(***************************************************************************)
(* Cost/ROI optimisation core of the churn-prediction repository:          *)
(* threshold_sweep / calculate_business_metrics / find_optimal_threshold   *)
(* (src/business/threshold_optimization.py), compare_models                *)
(* (src/business/roi_analysis.py) and compare_strategies                   *)
(* (src/business/segment_strategy.py).                                     *)
(*                                                                         *)
(* Number representation.                                                  *)
(*  - Thresholds and scores are Python floats (IEEE-754 binary64).  A      *)
(*    non-negative float is carried exactly, as the natural number          *)
(*    value * 2^Scale, held in Limbs limbs of LimbBits bits (little        *)
(*    endian).  Every float operation below computes the exact result and  *)
(*    rounds it to Precision significant bits, ties to even, as the        *)
(*    hardware does.                                                       *)
(*  - Decimal arguments (0.1, 0.95, 0.05, 0.25 ...) are written as whole   *)
(*    hundredths: 10, 95, 5, 25.  FromDecimal is the float a literal       *)
(*    denotes.                                                             *)
(*  - Money columns are exact integers in hundredths of the currency unit  *)
(*    (RETENTION_SUCCESS_RATE is a whole percentage, CLV and               *)
(*    RETENTION_COST whole currency units).                                *)
(*  - Precision and Recall are the exact quotients <<num, den>>.           *)
(***************************************************************************)
EXTENDS Integers, Sequences, FiniteSets, TLC

\* ------------------------------------------------------------------------
\* binary64 arithmetic on non-negative values
\* ------------------------------------------------------------------------
LimbBits == 15
Base == 32768
Limbs == 5
Precision == 53
Scale == 62

RECURSIVE Pow2(_)
Pow2(k) == IF k = 0 THEN 1 ELSE 2 * Pow2(k - 1)

BigZero == [j \in 1..Limbs |-> 0]

\* The natural number n < 2^31 as a big number.
BigOfInt(n) ==
    [j \in 1..Limbs |-> IF j = 1 THEN n % Base
                        ELSE IF j = 2 THEN (n \div Base) % Base
                        ELSE IF j = 3 THEN (n \div Base) \div Base
                        ELSE 0]

RECURSIVE AddC(_, _, _, _)
AddC(a, b, j, c) ==
    IF j > Limbs THEN << >>
    ELSE LET s == a[j] + b[j] + c
         IN  <<s % Base>> \o AddC(a, b, j + 1, s \div Base)

BigAdd(a, b) == AddC(a, b, 1, 0)

RECURSIVE SubC(_, _, _, _)
SubC(a, b, j, c) ==
    IF j > Limbs THEN << >>
    ELSE LET s == a[j] - b[j] - c
         IN  IF s < 0 THEN <<s + Base>> \o SubC(a, b, j + 1, 1)
                      ELSE <<s>> \o SubC(a, b, j + 1, 0)

\* a - b, for a >= b.
BigSub(a, b) == SubC(a, b, 1, 0)

RECURSIVE MulC(_, _, _, _)
MulC(a, k, j, c) ==
    IF j > Limbs THEN << >>
    ELSE LET s == a[j] * k + c
         IN  <<s % Base>> \o MulC(a, k, j + 1, s \div Base)

\* a * k, for a natural number k < Base.
BigMulInt(a, k) == MulC(a, k, 1, 0)

RECURSIVE CmpFrom(_, _, _)
CmpFrom(a, b, j) ==
    IF j = 0 THEN 0
    ELSE IF a[j] < b[j] THEN -1
    ELSE IF a[j] > b[j] THEN 1
    ELSE CmpFrom(a, b, j - 1)

\* -1, 0, 1 as a < b, a = b, a > b.
BigCmp(a, b) == CmpFrom(a, b, Limbs)

BigLess(a, b) == BigCmp(a, b) < 0
BigLeq(a, b) == BigCmp(a, b) <= 0

RECURSIVE IntBitLen(_)
IntBitLen(n) == IF n = 0 THEN 0 ELSE 1 + IntBitLen(n \div 2)

RECURSIVE BitLenFrom(_, _)
BitLenFrom(a, j) ==
    IF j = 0 THEN 0
    ELSE IF a[j] # 0 THEN LimbBits * (j - 1) + IntBitLen(a[j])
    ELSE BitLenFrom(a, j - 1)

\* Number of significant bits of a.
BitLen(a) == BitLenFrom(a, Limbs)

\* Bit k (k >= 0) of a.
BitAt(a, k) == (a[(k \div LimbBits) + 1] \div Pow2(k % LimbBits)) % 2

\* 2^k as a big number.
BigPow2(k) == [j \in 1..Limbs |-> IF j = (k \div LimbBits) + 1
                                  THEN Pow2(k % LimbBits) ELSE 0]

\* a with its d lowest bits cleared.
ClearLow(a, d) ==
    [j \in 1..Limbs |->
        IF LimbBits * j <= d THEN 0
        ELSE IF LimbBits * (j - 1) >= d THEN a[j]
        ELSE a[j] - (a[j] % Pow2(d - LimbBits * (j - 1)))]

\* Round the exact value x to Precision significant bits, ties to even.
RoundNearestEven(x) ==
    LET len == BitLen(x)
        d == len - Precision
    IN  IF d <= 0 THEN x
        ELSE LET low == ClearLow(x, d)
                 rem == BigSub(x, low)
                 half == BigCmp(rem, BigPow2(d - 1))
                 up == half > 0 \/ (half = 0 /\ BitAt(x, d) = 1)
             IN  IF up THEN BigAdd(low, BigPow2(d)) ELSE low

FAdd(a, b) == RoundNearestEven(BigAdd(a, b))

\* a - b, for a >= b.
FSub(a, b) == RoundNearestEven(BigSub(a, b))

\* float(k) * a, for a natural number k < Base.
FMulInt(k, a) == RoundNearestEven(BigMulInt(a, k))

\* Long division: the bits k, k-1, ..., lo of a / b, most significant
\* first; q is the quotient so far and r the remainder (r < b).  The
\* quotient must fit the limbs.
RECURSIVE DivBits(_, _, _, _, _, _)
DivStep(a, b, k, lo, q2, r2) ==
    IF BigLeq(b, r2)
    THEN DivBits(a, b, k - 1, lo, BigAdd(q2, BigOfInt(1)), BigSub(r2, b))
    ELSE DivBits(a, b, k - 1, lo, q2, r2)

DivBits(a, b, k, lo, q, r) ==
    IF k < lo \/ BitLen(q) >= Limbs * LimbBits - 1
    THEN [q |-> q, r |-> r]
    ELSE DivStep(a, b, k, lo, BigAdd(q, q),
                 BigAdd(BigAdd(r, r), BigOfInt(IF k >= 0 THEN BitAt(a, k) ELSE 0)))

\* The bits k, ..., -Scale of a / b, one limb's worth of bits at a time.
RECURSIVE DivLimbs(_, _, _, _)
DivLimbs(a, b, k, st) ==
    IF k < 0 - Scale \/ BitLen(st.q) >= Limbs * LimbBits - 1 THEN st
    ELSE DivLimbs(a, b, k - LimbBits,
                  DivBits(a, b, k,
                          IF k - LimbBits + 1 < 0 - Scale THEN 0 - Scale
                          ELSE k - LimbBits + 1,
                          st.q, st.r))

\* The float a / b for b > 0 and a = 0 or a / b >= 2^-8: the quotient to
\* Scale fractional bits, a sticky bit for what is left, then rounded.
FDiv(a, b) ==
    LET d == DivLimbs(a, b, BitLen(a) - 1, [q |-> BigZero, r |-> BigZero])
        sticky == IF d.r # BigZero /\ BitAt(d.q, 0) = 0
                  THEN BigAdd(d.q, BigOfInt(1)) ELSE d.q
    IN  RoundNearestEven(sticky)

\* math.ceil of a float, as a natural number.
Ceil(x) ==
    LET int == x[Limbs] \div Pow2(Scale - LimbBits * (Limbs - 1))
    IN  IF ClearLow(x, Scale) = x THEN int ELSE int + 1

\* The float a decimal literal of h hundredths denotes (0.1 is FromDecimal(10)).
FromDecimal(h) == FDiv(BigOfInt(h), BigOfInt(100))


\* ------------------------------------------------------------------------
\* binary64 arithmetic with a sign: [neg, mag], zero never negative
\* ------------------------------------------------------------------------
Signed(neg, mag) == [neg |-> neg /\ mag # BigZero, mag |-> mag]

SZero == Signed(FALSE, BigZero)

\* -x
SNeg(x) == Signed(~x.neg, x.mag)

\* x + y
SAdd(x, y) ==
    IF x.neg = y.neg THEN Signed(x.neg, FAdd(x.mag, y.mag))
    ELSE IF BigLeq(y.mag, x.mag) THEN Signed(x.neg, FSub(x.mag, y.mag))
    ELSE Signed(y.neg, FSub(y.mag, x.mag))

\* x - y
SSub(x, y) == SAdd(x, SNeg(y))

\* float(k) * x, for a natural number k < Base.
SMulInt(k, x) == Signed(x.neg, FMulInt(k, x.mag))

\* x <= y
SLeq(x, y) ==
    IF x.neg /\ ~y.neg THEN TRUE
    ELSE IF ~x.neg /\ y.neg THEN FALSE
    ELSE IF x.neg THEN BigLeq(y.mag, x.mag)
    ELSE BigLeq(x.mag, y.mag)

\* The float a decimal literal of h hundredths denotes, h of either sign.
SFromDecimal(h) ==
    IF h < 0 THEN Signed(TRUE, FromDecimal(0 - h))
    ELSE Signed(FALSE, FromDecimal(h))

\* ------------------------------------------------------------------------
\* Bounds and the inputs the operations are called with
\* ------------------------------------------------------------------------
\* Largest population (length of y_true and y_proba).
MaxN == 3

\* (start, end, step) of threshold_sweep, in hundredths; the first is the
\* default grid.
GridArgs ==
    { [start |-> 10, end |-> 95, step |-> 5],
      [start |-> 10, end |-> 40, step |-> 10],
      [start |-> 20, end |-> 80, step |-> 20] }

\* A call of threshold_sweep whose grid has no point: start = end.
EmptyGridArgs == [start |-> 50, end |-> 50, step |-> 10]

\* The grids of the calls of threshold_sweep.
SweepGridArgs == GridArgs \cup {EmptyGridArgs}

\* Predicted probabilities, in hundredths.
ScoreHundredths == {10, 40, 90}

Scores == {FromDecimal(h) : h \in ScoreHundredths}

\* (clv, retention_cost, retention_success_rate) of get_cost_matrix: whole
\* currency units, and the rate in hundredths.
CostArgs ==
    { [clv |-> 1200, retention_cost |-> 50, retention_success_rate |-> 25],
      [clv |-> 200, retention_cost |-> 50, retention_success_rate |-> 25] }

\* ------------------------------------------------------------------------
\* cost_matrix.py
\* ------------------------------------------------------------------------
\* The net values TP, FP, FN, TN are in hundredths of the currency unit.
get_cost_matrix(clv, retention_cost, retention_success_rate) ==
    [ CLV |-> clv,
      RETENTION_COST |-> retention_cost,
      RETENTION_SUCCESS_RATE |-> retention_success_rate,
      TP |-> (clv * retention_success_rate) - (retention_cost * 100),
      FP |-> 0 - (retention_cost * 100),
      FN |-> 0 - (clv * retention_success_rate),
      TN |-> 0 ]

CostMatrices ==
    { get_cost_matrix(c.clv, c.retention_cost, c.retention_success_rate) :
        c \in CostArgs }

\* Variant of get_cost_matrix_float64 whose FN leaves the success rate out.
get_cost_matrix_float64_MissAtFullValue(clv, retention_cost, retention_success_rate) ==
    [ CLV |-> clv,
      RETENTION_COST |-> retention_cost,
      RETENTION_SUCCESS_RATE |-> retention_success_rate,
      TP |-> SSub(SMulInt(clv, retention_success_rate), retention_cost),
      FP |-> SNeg(retention_cost),
      FN |-> SNeg(SMulInt(clv, Signed(FALSE, BigPow2(Scale)))),
      TN |-> SZero ]

\* get_cost_matrix as Python computes it, in binary64: clv is a whole
\* number, retention_cost and retention_success_rate are signed floats, and
\* so are the four net values.  The function has no other statement: it
\* returns for every argument.
get_cost_matrix_float64(clv, retention_cost, retention_success_rate) ==
    [ CLV |-> clv,
      RETENTION_COST |-> retention_cost,
      RETENTION_SUCCESS_RATE |-> retention_success_rate,
      TP |-> SSub(SMulInt(clv, retention_success_rate), retention_cost),
      FP |-> SNeg(retention_cost),
      FN |-> SNeg(SMulInt(clv, retention_success_rate)),
      TN |-> SZero ]

\* (clv, retention_cost, retention_success_rate) of the calls of
\* get_cost_matrix looked at in binary64: clv in whole units, the other two
\* in hundredths (5010 is 50.1, 150 is 1.5).
CostCallArgs ==
    [ clv : {200, 1200, 1553},
      retention_cost : {0 - 5000, 0, 1, 5000, 5010},
      retention_success_rate : {0, 7, 25, 100, 150} ]

\* ------------------------------------------------------------------------
\* threshold_optimization.py
\* ------------------------------------------------------------------------
\* The outcome of a call is a record: the exception that left it, or (for
\* a call that returns a table) the value it returned.
\* Python's None.
None == [none |-> TRUE]

Raise(kind) == [raised |-> kind]

Returned(value) == [returned |-> value]

IsRaised(outcome) == "raised" \in DOMAIN outcome

\* Variant of Predict with the exclusive comparison y_proba > threshold.
PredictStrict(y_proba, threshold) ==
    [i \in 1..Len(y_proba) |-> IF BigLess(threshold, y_proba[i]) THEN 1 ELSE 0]

\* Variant of Predict with the comparison turned round, y_proba <= threshold.
PredictBelow(y_proba, threshold) ==
    [i \in 1..Len(y_proba) |-> IF BigLeq(y_proba[i], threshold) THEN 1 ELSE 0]

\* y_pred = (y_proba >= threshold).astype(int)
Predict(y_proba, threshold) ==
    [i \in 1..Len(y_proba) |-> IF BigLeq(threshold, y_proba[i]) THEN 1 ELSE 0]

\* sklearn's confusion_matrix(y_true, y_pred).ravel(): the labels are the
\* sorted values that occur in y_true or y_pred, the matrix has one row
\* (true label) and one column (predicted label) per label, and ravel lists
\* it row by row.  It raises ValueError unless the two vectors are non-empty
\* and equally long.
ConsistentLength(y_true, y_pred) ==
    Len(y_true) = Len(y_pred) /\ Len(y_true) > 0

SortedLabels(y_true, y_pred) ==
    LET present == {y_true[i] : i \in 1..Len(y_true)}
                     \cup {y_pred[i] : i \in 1..Len(y_pred)}
    IN  IF present = {0, 1} THEN <<0, 1>>
        ELSE IF present = {0} THEN <<0>>
        ELSE IF present = {1} THEN <<1>>
        ELSE << >>

\* Variant of Tally that counts the true label alone.
TallyTrueOnly(y_true, y_pred, t, p) ==
    Cardinality({i \in 1..Len(y_true) : y_true[i] = t})

Tally(y_true, y_pred, t, p) ==
    Cardinality({i \in 1..Len(y_true) : y_true[i] = t /\ y_pred[i] = p})

ConfusionRavel(y_true, y_pred) ==
    LET labels == SortedLabels(y_true, y_pred)
        n == Len(labels)
    IN  [k \in 1..(n * n) |->
            Tally(y_true, y_pred,
                  labels[((k - 1) \div n) + 1], labels[((k - 1) % n) + 1])]

\* tp / (tp + fp) if (tp + fp) > 0 else 0, as the exact quotient.
Ratio(num, den) == IF den > 0 THEN <<num, den>> ELSE <<0, 1>>

\* Variant of BusinessMetricsRecord that charges the opportunity cost to
\* Net_ROI.
BusinessMetricsRecordNetOfMisses(tn, fp, fn, tp, threshold, cost_matrix) ==
    LET customers_contacted == tp + fp
        total_retention_cost ==
            customers_contacted * cost_matrix.RETENTION_COST * 100
        revenue_saved ==
            tp * cost_matrix.RETENTION_SUCCESS_RATE * cost_matrix.CLV
        opportunity_cost ==
            fn * cost_matrix.RETENTION_SUCCESS_RATE * cost_matrix.CLV
        net_roi == revenue_saved - total_retention_cost - opportunity_cost
    IN  [ Threshold |-> threshold,
          Customers_Contacted |-> customers_contacted,
          TP |-> tp, FP |-> fp, FN |-> fn, TN |-> tn,
          Precision |-> Ratio(tp, tp + fp),
          Recall |-> Ratio(tp, tp + fn),
          Retention_Cost |-> total_retention_cost,
          Revenue_Saved |-> revenue_saved,
          Opportunity_Cost |-> opportunity_cost,
          Net_ROI |-> net_roi ]

\* The record, from the four counts (the statements after the unpacking).
BusinessMetricsRecord(tn, fp, fn, tp, threshold, cost_matrix) ==
    LET customers_contacted == tp + fp
        total_retention_cost ==
            customers_contacted * cost_matrix.RETENTION_COST * 100
        revenue_saved ==
            tp * cost_matrix.RETENTION_SUCCESS_RATE * cost_matrix.CLV
        opportunity_cost ==
            fn * cost_matrix.RETENTION_SUCCESS_RATE * cost_matrix.CLV
        net_roi == revenue_saved - total_retention_cost
    IN  [ Threshold |-> threshold,
          Customers_Contacted |-> customers_contacted,
          TP |-> tp, FP |-> fp, FN |-> fn, TN |-> tn,
          Precision |-> Ratio(tp, tp + fp),
          Recall |-> Ratio(tp, tp + fn),
          Retention_Cost |-> total_retention_cost,
          Revenue_Saved |-> revenue_saved,
          Opportunity_Cost |-> opportunity_cost,
          Net_ROI |-> net_roi ]

\* The record, or the exception raised: confusion_matrix raises ValueError
\* on inconsistent input, and so does the unpacking
\* tn, fp, fn, tp = ... when ravel() does not hold exactly four values.
calculate_business_metrics(y_true, y_proba, threshold, cost_matrix) ==
    LET y_pred == Predict(y_proba, threshold)
        cm == ConfusionRavel(y_true, y_pred)
    IN  IF ~ConsistentLength(y_true, y_pred) THEN Raise("ValueError")
        ELSE IF Len(cm) # 4 THEN Raise("ValueError")
        ELSE BusinessMetricsRecord(cm[1], cm[2], cm[3], cm[4],
                                   threshold, cost_matrix)

\* np.arange(start, stop, step) on floats: ceil((stop - start) / step)
\* values; the first is start, the second start + step, and value i >= 2 is
\* start + i * delta with delta = (start + step) - start.
arange(start, stop, step) ==
    IF BigLess(stop, start) THEN << >>
    ELSE LET length == Ceil(FDiv(FSub(stop, start), step))
             next == FAdd(start, step)
             delta == FSub(next, start)
         IN  [k \in 1..length |->
                IF k = 1 THEN start
                ELSE IF k = 2 THEN next
                ELSE FAdd(start, FMulInt(k - 1, delta))]

\* The float arguments start, end, step of each call.
GridFloats ==
    [g \in SweepGridArgs |-> [start |-> FromDecimal(g.start),
                         end |-> FromDecimal(g.end),
                         step |-> FromDecimal(g.step)]]

\* thresholds = np.arange(start, end, step), for each (start, end, step).
ThresholdGrid ==
    [g \in SweepGridArgs |->
        arange(GridFloats[g].start, GridFloats[g].end, GridFloats[g].step)]


\* The numeric columns of a sweep table that hold a quotient.
RatioColumns == {"Precision", "Recall"}

\* Columns find_optimal_threshold is asked to maximise.
Metrics == {"Net_ROI", "Recall", "Precision", "Customers_Contacted", "Threshold"}

\* The metric names find_optimal_threshold is called with: those columns,
\* and a name that is no column of a sweep table.
MetricArgs == Metrics \cup {"F1_Score"}

\* sweep_df.columns: the keys of the records pd.DataFrame(results) was built
\* from; a table built from no record has no column at all.
Columns(table) == IF Len(table) = 0 THEN {} ELSE DOMAIN table[1]

\* row1[metric] < row2[metric]
ColumnLess(metric, row1, row2) ==
    IF metric \in RatioColumns
    THEN row1[metric][1] * row2[metric][2] < row2[metric][1] * row1[metric][2]
    ELSE IF metric = "Threshold" THEN BigLess(row1[metric], row2[metric])
    ELSE row1[metric] < row2[metric]

\* Series.idxmax(): the index of the first occurrence of the maximum; the
\* scan keeps the best row so far and moves only to a strictly greater one.
RECURSIVE ArgMaxFrom(_, _, _, _)
ArgMaxFrom(sweep_df, metric, k, best) ==
    IF k > Len(sweep_df) THEN best
    ELSE ArgMaxFrom(sweep_df, metric, k + 1,
                    IF ColumnLess(metric, sweep_df[best], sweep_df[k])
                    THEN k ELSE best)

\* Variant of idxmax that moves to a later row on a tie as well: the last
\* occurrence of the maximum.
RECURSIVE ArgMaxLastFrom(_, _, _, _)
ArgMaxLastFrom(sweep_df, metric, k, best) ==
    IF k > Len(sweep_df) THEN best
    ELSE ArgMaxLastFrom(sweep_df, metric, k + 1,
                        IF ColumnLess(metric, sweep_df[k], sweep_df[best])
                        THEN best ELSE k)

idxmaxLast(sweep_df, metric) == ArgMaxLastFrom(sweep_df, metric, 2, 1)

idxmax(sweep_df, metric) == ArgMaxFrom(sweep_df, metric, 2, 1)

\* Variant of find_optimal_threshold that falls back to Net_ROI when the
\* metric is not a column, and to no row when the table is empty.
find_optimal_threshold_WithFallback(sweep_df, metric) ==
    IF Len(sweep_df) = 0 THEN Returned(None)
    ELSE IF metric \notin Columns(sweep_df)
    THEN Returned(sweep_df[idxmax(sweep_df, "Net_ROI")])
    ELSE Returned(sweep_df[idxmax(sweep_df, metric)])

\* sweep_df[metric] raises KeyError when metric is not a column, which is
\* also the case of every metric on the table of an empty sweep; otherwise
\* the row at idxmax is returned.
find_optimal_threshold(sweep_df, metric) ==
    IF metric \notin Columns(sweep_df) THEN Raise("KeyError")
    ELSE Returned(sweep_df[idxmax(sweep_df, metric)])

\* The loop of threshold_sweep from grid point k on: the table, or the
\* exception the first failing call raises.
RECURSIVE SweepFrom(_, _, _, _, _, _)
SweepPass(yt, yp, cm, ts, k, rows, metrics) ==
    IF IsRaised(metrics) THEN metrics
    ELSE SweepFrom(yt, yp, cm, ts, k + 1, Append(rows, metrics))

SweepFrom(yt, yp, cm, ts, k, rows) ==
    IF k > Len(ts) THEN Returned(rows)
    ELSE SweepPass(yt, yp, cm, ts, k, rows,
                   calculate_business_metrics(yt, yp, ts[k], cm))

threshold_sweep(yt, yp, cm, g) == SweepFrom(yt, yp, cm, ThresholdGrid[g], 1, << >>)


\* ------------------------------------------------------------------------
\* roi_analysis.py
\* ------------------------------------------------------------------------
\* Variant of compare_models that also selects the first model on a tie.
compare_models_FirstOnTie(lr_sweep, rf_sweep) ==
    LET lr_optimal == lr_sweep[idxmax(lr_sweep, "Net_ROI")]
        rf_optimal == rf_sweep[idxmax(rf_sweep, "Net_ROI")]
    IN  IF lr_optimal.Net_ROI >= rf_optimal.Net_ROI
        THEN [ model |-> "Logistic Regression",
               threshold |-> lr_optimal.Threshold,
               roi |-> lr_optimal.Net_ROI,
               sweep |-> lr_sweep,
               optimal |-> lr_optimal ]
        ELSE [ model |-> "Random Forest",
               threshold |-> rf_optimal.Threshold,
               roi |-> rf_optimal.Net_ROI,
               sweep |-> rf_sweep,
               optimal |-> rf_optimal ]

\* For tables with at least one row.
compare_models(lr_sweep, rf_sweep) ==
    LET lr_optimal == lr_sweep[idxmax(lr_sweep, "Net_ROI")]
        rf_optimal == rf_sweep[idxmax(rf_sweep, "Net_ROI")]
    IN  IF lr_optimal.Net_ROI > rf_optimal.Net_ROI
        THEN [ model |-> "Logistic Regression",
               threshold |-> lr_optimal.Threshold,
               roi |-> lr_optimal.Net_ROI,
               sweep |-> lr_sweep,
               optimal |-> lr_optimal ]
        ELSE [ model |-> "Random Forest",
               threshold |-> rf_optimal.Threshold,
               roi |-> rf_optimal.Net_ROI,
               sweep |-> rf_sweep,
               optimal |-> rf_optimal ]

\* ------------------------------------------------------------------------
\* segment_strategy.py
\* ------------------------------------------------------------------------
\* sweep[sweep['Threshold'] == threshold]: the rows whose Threshold is that
\* very float, in table order.
RowsAt(sweep, threshold) ==
    SelectSeq(sweep, LAMBDA row : row.Threshold = threshold)

\* Variant of compare_strategies that takes each segment's optimum by
\* Recall instead of Net_ROI.
compare_strategies_ByRecall(high_value_sweep, low_value_sweep, best_single_threshold) ==
    LET high_value_optimal ==
            high_value_sweep[idxmax(high_value_sweep, "Recall")]
        low_value_optimal ==
            low_value_sweep[idxmax(low_value_sweep, "Recall")]
        high_rows == RowsAt(high_value_sweep, best_single_threshold)
        low_rows == RowsAt(low_value_sweep, best_single_threshold)
    IN  IF Len(high_rows) = 0 \/ Len(low_rows) = 0 THEN Raise("IndexError")
        ELSE
        LET single_high == high_rows[1].Net_ROI
            single_low == low_rows[1].Net_ROI
            single_total == single_high + single_low
            segment_total == high_value_optimal.Net_ROI + low_value_optimal.Net_ROI
            improvement == segment_total - single_total
        IN  [ single_threshold |-> best_single_threshold,
              single_high_roi |-> single_high,
              single_low_roi |-> single_low,
              single_total_roi |-> single_total,
              high_value_optimal |-> high_value_optimal,
              low_value_optimal |-> low_value_optimal,
              segment_total_roi |-> segment_total,
              improvement |-> improvement ]

\* For tables with at least one row.  .values[0] of an empty selection
\* raises IndexError.
compare_strategies(high_value_sweep, low_value_sweep, best_single_threshold) ==
    LET high_value_optimal ==
            high_value_sweep[idxmax(high_value_sweep, "Net_ROI")]
        low_value_optimal ==
            low_value_sweep[idxmax(low_value_sweep, "Net_ROI")]
        high_rows == RowsAt(high_value_sweep, best_single_threshold)
        low_rows == RowsAt(low_value_sweep, best_single_threshold)
    IN  IF Len(high_rows) = 0 \/ Len(low_rows) = 0 THEN Raise("IndexError")
        ELSE
        LET single_high == high_rows[1].Net_ROI
            single_low == low_rows[1].Net_ROI
            single_total == single_high + single_low
            segment_total == high_value_optimal.Net_ROI + low_value_optimal.Net_ROI
            improvement == segment_total - single_total
        IN  [ single_threshold |-> best_single_threshold,
              single_high_roi |-> single_high,
              single_low_roi |-> single_low,
              single_total_roi |-> single_total,
              high_value_optimal |-> high_value_optimal,
              low_value_optimal |-> low_value_optimal,
              segment_total_roi |-> segment_total,
              improvement |-> improvement ]

\* Number of values of the sequence that are < v, and that are <= v.
CountBelow(values, v) == Cardinality({i \in 1..Len(values) : values[i] < v})
CountUpTo(values, v) == Cardinality({i \in 1..Len(values) : values[i] <= v})

\* The k-th smallest value of a non-empty sequence, k in 1..Len(values).
KthSmallest(values, k) ==
    CHOOSE v \in {values[i] : i \in 1..Len(values)} :
        CountBelow(values, v) < k /\ k <= CountUpTo(values, v)

\* Series.median() of a non-empty column, as the exact quotient <<num, 2>>:
\* the middle value, or the mean of the two middle values.  (On charges
\* written in hundredths the float mean of two different values lies
\* strictly between them, as the exact one does.)
median(values) ==
    LET n == Len(values)
    IN  IF n % 2 = 1 THEN <<2 * KthSmallest(values, (n + 1) \div 2), 2>>
        ELSE <<KthSmallest(values, n \div 2) + KthSmallest(values, (n \div 2) + 1), 2>>

\* The column of a table, in row order.
Column(df, name) == [i \in 1..Len(df) |-> df[i][name]]

\* df[name] = values: the table with that column added or replaced.
WithColumn(df, name, values) ==
    [i \in 1..Len(df) |->
        [c \in DOMAIN df[i] \cup {name} |-> IF c = name THEN values[i] ELSE df[i][c]]]

\* np.where(df[charge_column] >= charge_median, 'High-Value', 'Low-Value')
ValueSegmentColumn(df, charge_column, charge_median) ==
    [i \in 1..Len(df) |->
        IF df[i][charge_column] * charge_median[2] >= charge_median[1]
        THEN "High-Value" ELSE "Low-Value"]

\* Variant of create_value_segments that tags a charge equal to the median
\* Low-Value.
create_value_segments_StrictlyAbove(df, charge_column) ==
    LET charge_median == median(Column(df, charge_column))
        tagged ==
            WithColumn(df, "value_segment",
                       [i \in 1..Len(df) |->
                           IF df[i][charge_column] * charge_median[2] > charge_median[1]
                           THEN "High-Value" ELSE "Low-Value"])
    IN  [ caller_df |-> df,
          returned |-> <<tagged, charge_median>> ]

\* create_value_segments on a non-empty table: df = df.copy() makes the
\* local name a new table, the column is added to that one, and the
\* caller's table (caller_df) stays as it was.
create_value_segments(df, charge_column) ==
    LET copy == df
        charge_median == median(Column(copy, charge_column))
        tagged == WithColumn(copy, "value_segment",
                             ValueSegmentColumn(copy, charge_column, charge_median))
    IN  [ caller_df |-> df,
          returned |-> <<tagged, charge_median>> ]

\* float('nan')
NaN == [nan |-> TRUE]

RECURSIVE SumFrom(_, _)
SumFrom(values, k) ==
    IF k > Len(values) THEN 0 ELSE values[k] + SumFrom(values, k + 1)

\* df[df['value_segment'] == segment]
SegmentRows(df, segment) ==
    SelectSeq(df, LAMBDA row : row.value_segment = segment)

\* Series.mean(): NaN for an empty column, else the exact quotient
\* <<sum, count>>.
mean(values) ==
    IF Len(values) = 0 THEN NaN ELSE <<SumFrom(values, 1), Len(values)>>

\* calculate_segment_clv: mean() * avg_remaining_months, and NaN * n is NaN.
\* The function has no raise.
calculate_segment_clv(df, segment, avg_remaining_months) ==
    LET segment_df == SegmentRows(df, segment)
        charge_mean == mean(Column(segment_df, "MonthlyCharges"))
    IN  IF charge_mean = NaN THEN Returned(NaN)
        ELSE Returned(<<charge_mean[1] * avg_remaining_months, charge_mean[2]>>)

\* start, end, step that threshold_sweep takes when they are not passed.
DefaultGridArgs == [start |-> 10, end |-> 95, step |-> 5]

\* The statements of segment_threshold_analysis that build the segment
\* cost matrix from a dict object: three item assignments.
SegmentMatrixItems(dict, segment_clv, base_cost_matrix) ==
    [dict EXCEPT
        !.CLV = segment_clv,
        !.TP = (segment_clv * base_cost_matrix.RETENTION_SUCCESS_RATE)
                 - (base_cost_matrix.RETENTION_COST * 100),
        !.FN = 0 - (segment_clv * base_cost_matrix.RETENTION_SUCCESS_RATE)]

\* Variant of segment_threshold_analysis without the copy: the item
\* assignments go to the caller's dict.
segment_threshold_analysis_SharedMatrix(df_segment, proba_col, segment_clv, base_cost_matrix, thresholds) ==
    LET segment_cost_matrix ==
            SegmentMatrixItems(base_cost_matrix, segment_clv, base_cost_matrix)
    IN  [ caller_cost_matrix |-> segment_cost_matrix,
          segment_cost_matrix |-> segment_cost_matrix,
          outcome |-> threshold_sweep(Column(df_segment, "y_true"),
                                      Column(df_segment, proba_col),
                                      segment_cost_matrix, DefaultGridArgs) ]

\* Variant of segment_threshold_analysis that sweeps the thresholds it was
\* given.
segment_threshold_analysis_OnThresholds(df_segment, proba_col, segment_clv, base_cost_matrix, thresholds) ==
    LET grid_points == IF thresholds = None THEN ThresholdGrid[DefaultGridArgs]
                       ELSE thresholds
        segment_cost_matrix ==
            SegmentMatrixItems(base_cost_matrix, segment_clv, base_cost_matrix)
    IN  [ caller_cost_matrix |-> base_cost_matrix,
          segment_cost_matrix |-> segment_cost_matrix,
          outcome |-> SweepFrom(Column(df_segment, "y_true"),
                                Column(df_segment, proba_col),
                                segment_cost_matrix, grid_points, 1, << >>) ]

\* segment_threshold_analysis: the local thresholds is set when None and
\* never read; base_cost_matrix.copy() is a new dict, which takes the three
\* item assignments; threshold_sweep is called without start, end, step.
\* caller_cost_matrix is the caller's dict after the call, segment_cost_matrix
\* the local one, outcome what the function returns or raises.
segment_threshold_analysis(df_segment, proba_col, segment_clv, base_cost_matrix, thresholds) ==
    LET grid_points == IF thresholds = None THEN ThresholdGrid[DefaultGridArgs]
                       ELSE thresholds
        copy == base_cost_matrix
        segment_cost_matrix ==
            SegmentMatrixItems(copy, segment_clv, base_cost_matrix)
    IN  [ caller_cost_matrix |-> base_cost_matrix,
          segment_cost_matrix |-> segment_cost_matrix,
          outcome |-> threshold_sweep(Column(df_segment, "y_true"),
                                      Column(df_segment, proba_col),
                                      segment_cost_matrix, DefaultGridArgs) ]

\* ------------------------------------------------------------------------
\* State
\* ------------------------------------------------------------------------
VARIABLES
    pc,            \* where the caller is
    arg_y_true,        \* threshold_sweep argument: true labels
    arg_y_proba,       \* threshold_sweep argument: predicted probabilities
    arg_cost_matrix,   \* threshold_sweep argument
    grid,          \* arguments start, end, step (hundredths)
    thresholds,    \* threshold_sweep local: the grid np.arange produced
    results,       \* threshold_sweep local: the records appended so far
    calls,         \* the thresholds calculate_business_metrics was called with
    sweep_df,      \* the table threshold_sweep returned
    optimal,       \* what find_optimal_threshold returned, and for which metric
    first_sweep,   \* a table in hand: lr_sweep / high_value_sweep
    second_sweep,  \* a table in hand: rf_sweep / low_value_sweep
    best,          \* outcome of compare_models
    comparison,    \* outcome of compare_strategies
    cost_args,     \* arguments of a call of get_cost_matrix
    cost_outcome,  \* what that call returned
    call_args,     \* arguments of a call of calculate_business_metrics
    call_outcome,  \* the record that call returned, or the error it raised
    population,    \* the caller's customer table (df)
    segmented,     \* what create_value_segments returned
    clv_outcome,   \* what calculate_segment_clv returned, and for which segment
    caller_cost_matrix,  \* the caller's base cost matrix (a dict object)
    analysis       \* a call of segment_threshold_analysis: arguments and outcome

vars ==
    <<pc, arg_y_true, arg_y_proba, arg_cost_matrix, grid, thresholds, results, calls,
      sweep_df, optimal, first_sweep, second_sweep, best, comparison,
      cost_args, cost_outcome, call_args, call_outcome, population, segmented,
      clv_outcome, caller_cost_matrix, analysis>>

sweepVars ==
    <<arg_y_true, arg_y_proba, arg_cost_matrix, thresholds, results, calls, sweep_df,
      optimal>>

compareVars == <<first_sweep, second_sweep, best, comparison>>

costVars == <<cost_args, cost_outcome>>

callVars == <<call_args, call_outcome>>

segmentVars ==
    <<population, segmented, clv_outcome, caller_cost_matrix, analysis>>

NoValue == [none |-> TRUE]

\* No call of get_cost_matrix is looked at.
NoCostCall == cost_args = NoValue /\ cost_outcome = NoValue

\* No call of threshold_sweep is looked at.
NoSweep ==
    /\ arg_y_true = << >>
    /\ arg_y_proba = << >>
    /\ arg_cost_matrix = NoValue
    /\ thresholds = << >>
    /\ results = << >>
    /\ calls = << >>
    /\ sweep_df = NoValue
    /\ optimal = NoValue

\* No tables are being compared.
NoComparison ==
    /\ first_sweep = NoValue
    /\ second_sweep = NoValue
    /\ best = NoValue
    /\ comparison = NoValue

\* No single call of calculate_business_metrics is looked at.
NoMetricsCall == call_args = NoValue /\ call_outcome = NoValue

\* No customer table is being segmented.
NoSegments ==
    /\ population = NoValue
    /\ segmented = NoValue
    /\ clv_outcome = NoValue
    /\ caller_cost_matrix = NoValue
    /\ analysis = NoValue

\* The prediction sets <<y_true, y_proba>> of up to maxLen customers.
PredictionSets(maxLen) ==
    UNION {[1..n -> {0, 1}] \X [1..n -> Scores] : n \in 1..maxLen}

\* ------------------------------------------------------------------------
\* One call of threshold_sweep, statement by statement, and
\* find_optimal_threshold on the table it returns
\* ------------------------------------------------------------------------
Init ==
    /\ pc = "threshold_sweep"
    /\ \E ps \in PredictionSets(MaxN) :
          /\ arg_y_true = ps[1]
          /\ arg_y_proba = ps[2]
    /\ arg_cost_matrix \in CostMatrices
    /\ grid \in SweepGridArgs
    /\ thresholds = << >>
    /\ results = << >>
    /\ calls = << >>
    /\ sweep_df = NoValue
    /\ optimal = NoValue
    /\ first_sweep = NoValue
    /\ second_sweep = NoValue
    /\ best = NoValue
    /\ comparison = NoValue
    /\ NoCostCall
    /\ NoMetricsCall
    /\ NoSegments

\* thresholds = np.arange(start, end, step); results = []
Arange ==
    /\ pc = "threshold_sweep"
    /\ thresholds' = ThresholdGrid[grid]
    /\ pc' = "for"
    /\ UNCHANGED <<arg_y_true, arg_y_proba, arg_cost_matrix, grid, results, calls,
                   sweep_df, optimal>>
    /\ UNCHANGED <<compareVars, costVars, callVars, segmentVars>>

NextThreshold == thresholds[Len(calls) + 1]

\* for t in thresholds: one pass whose call returns a record, appended.
LoopAppend ==
    /\ pc = "for"
    /\ Len(calls) < Len(thresholds)
    /\ LET metrics == calculate_business_metrics(arg_y_true, arg_y_proba,
                                                 NextThreshold, arg_cost_matrix)
       IN  /\ ~IsRaised(metrics)
           /\ results' = Append(results, metrics)
    /\ calls' = Append(calls, NextThreshold)
    /\ UNCHANGED <<pc, arg_y_true, arg_y_proba, arg_cost_matrix, grid, thresholds,
                   sweep_df, optimal>>
    /\ UNCHANGED <<compareVars, costVars, callVars, segmentVars>>

\* for t in thresholds: one pass whose call raises; the exception leaves
\* threshold_sweep and no table is returned.
LoopRaise ==
    /\ pc = "for"
    /\ Len(calls) < Len(thresholds)
    /\ IsRaised(calculate_business_metrics(arg_y_true, arg_y_proba,
                                           NextThreshold, arg_cost_matrix))
    /\ calls' = Append(calls, NextThreshold)
    /\ pc' = "raised"
    /\ UNCHANGED <<arg_y_true, arg_y_proba, arg_cost_matrix, grid, thresholds, results,
                   sweep_df, optimal>>
    /\ UNCHANGED <<compareVars, costVars, callVars, segmentVars>>

\* return pd.DataFrame(results)
Return ==
    /\ pc = "for"
    /\ Len(calls) = Len(thresholds)
    /\ sweep_df' = results
    /\ pc' = "returned"
    /\ UNCHANGED <<arg_y_true, arg_y_proba, arg_cost_matrix, grid, thresholds, results,
                   calls, optimal>>
    /\ UNCHANGED <<compareVars, costVars, callVars, segmentVars>>

\* find_optimal_threshold(sweep_df, metric) on the returned table.
FindOptimal ==
    /\ pc = "returned"
    /\ \E metric \in MetricArgs :
          /\ ~IsRaised(find_optimal_threshold(sweep_df, metric))
          /\ optimal' = [metric |-> metric,
                         row |-> find_optimal_threshold(sweep_df, metric).returned]
    /\ pc' = "selected"
    /\ UNCHANGED <<arg_y_true, arg_y_proba, arg_cost_matrix, grid, thresholds, results,
                   calls, sweep_df>>
    /\ UNCHANGED <<compareVars, costVars, callVars, segmentVars>>

\* The same call, raising.
FindOptimalRaise ==
    /\ pc = "returned"
    /\ \E metric \in MetricArgs :
          /\ IsRaised(find_optimal_threshold(sweep_df, metric))
          /\ optimal' = [metric |-> metric,
                         raised |-> find_optimal_threshold(sweep_df, metric).raised]
    /\ pc' = "selection_raised"
    /\ UNCHANGED <<arg_y_true, arg_y_proba, arg_cost_matrix, grid, thresholds, results,
                   calls, sweep_df>>
    /\ UNCHANGED <<compareVars, costVars, callVars, segmentVars>>

Next ==
    \/ Arange
    \/ LoopAppend
    \/ LoopRaise
    \/ Return
    \/ FindOptimal
    \/ FindOptimalRaise

Spec == Init /\ [][Next]_vars

\* ------------------------------------------------------------------------
\* Two returned tables handed to compare_models and compare_strategies
\* ------------------------------------------------------------------------
\* Largest population behind a table that is compared.
MaxComparedN == 2

\* The tables threshold_sweep returns on grid g.
SweepTables ==
    [g \in GridArgs |->
        {outcome.returned :
            outcome \in {o \in {threshold_sweep(ps[1], ps[2], cm, g) :
                                   ps \in PredictionSets(MaxComparedN),
                                   cm \in CostMatrices} : ~IsRaised(o)}}]

\* best_single_threshold as the callers pass it: a Threshold of the grid, or
\* a decimal literal.
ThresholdLiterals == {FromDecimal(15), FromDecimal(30)}

InitCompare ==
    /\ pc = "tables"
    /\ grid \in GridArgs
    /\ first_sweep \in SweepTables[grid]
    /\ second_sweep \in SweepTables[grid]
    /\ best = NoValue
    /\ comparison = NoValue
    /\ arg_y_true = << >>
    /\ arg_y_proba = << >>
    /\ arg_cost_matrix = NoValue
    /\ thresholds = << >>
    /\ results = << >>
    /\ calls = << >>
    /\ sweep_df = NoValue
    /\ optimal = NoValue
    /\ NoCostCall
    /\ NoMetricsCall
    /\ NoSegments

\* best = compare_models(lr_sweep, rf_sweep)
CompareModels ==
    /\ pc = "tables"
    /\ Len(first_sweep) > 0 /\ Len(second_sweep) > 0
    /\ best' = compare_models(first_sweep, second_sweep)
    /\ pc' = "compared_models"
    /\ UNCHANGED <<grid, first_sweep, second_sweep, comparison>>
    /\ UNCHANGED <<sweepVars, costVars, callVars, segmentVars>>

StrategyOutcome(t) == compare_strategies(first_sweep, second_sweep, t)

\* comparison = compare_strategies(high_value_sweep, low_value_sweep, t)
CompareStrategies ==
    /\ pc = "tables"
    /\ Len(first_sweep) > 0 /\ Len(second_sweep) > 0
    /\ \E t \in {ThresholdGrid[grid][k] : k \in 1..Len(ThresholdGrid[grid])}
                  \cup ThresholdLiterals :
          /\ ~IsRaised(StrategyOutcome(t))
          /\ comparison' = StrategyOutcome(t)
    /\ pc' = "compared_strategies"
    /\ UNCHANGED <<grid, first_sweep, second_sweep, best>>
    /\ UNCHANGED <<sweepVars, costVars, callVars, segmentVars>>

\* compare_strategies raising: the selection for best_single_threshold is
\* empty in one of the tables.
CompareStrategiesRaise ==
    /\ pc = "tables"
    /\ Len(first_sweep) > 0 /\ Len(second_sweep) > 0
    /\ \E t \in {ThresholdGrid[grid][k] : k \in 1..Len(ThresholdGrid[grid])}
                  \cup ThresholdLiterals :
          /\ IsRaised(StrategyOutcome(t))
          /\ comparison' = [raised |-> StrategyOutcome(t).raised,
                            single_threshold |-> t]
    /\ pc' = "raised"
    /\ UNCHANGED <<grid, first_sweep, second_sweep, best>>
    /\ UNCHANGED <<sweepVars, costVars, callVars, segmentVars>>

NextCompare ==
    \/ CompareModels
    \/ CompareStrategies
    \/ CompareStrategiesRaise

SpecCompare == InitCompare /\ [][NextCompare]_vars

\* ------------------------------------------------------------------------
\* One call of get_cost_matrix, in binary64
\* ------------------------------------------------------------------------
InitCost ==
    /\ pc = "get_cost_matrix"
    /\ cost_args \in CostCallArgs
    /\ cost_outcome = NoValue
    /\ grid = NoValue
    /\ NoSweep
    /\ NoComparison
    /\ NoMetricsCall
    /\ NoSegments

\* cost_matrix = get_cost_matrix(clv, retention_cost, retention_success_rate)
GetCostMatrix ==
    /\ pc = "get_cost_matrix"
    /\ cost_outcome' =
          Returned(get_cost_matrix_float64(
                       cost_args.clv,
                       SFromDecimal(cost_args.retention_cost),
                       SFromDecimal(cost_args.retention_success_rate)))
    /\ pc' = "cost_matrix"
    /\ UNCHANGED <<grid, cost_args>>
    /\ UNCHANGED <<sweepVars, compareVars, callVars, segmentVars>>

NextCost == GetCostMatrix

SpecCost == InitCost /\ [][NextCost]_vars

\* ------------------------------------------------------------------------
\* One call of calculate_business_metrics on arbitrary arguments
\* ------------------------------------------------------------------------
\* Longest y_true and y_proba of such a call.
MaxCallN == 2

\* Thresholds of such a call, in hundredths: 0, inside (0, 1), 1, above 1.
CallThresholdHundredths == {0, 10, 40, 100, 150}

CallThresholds == {FromDecimal(h) : h \in CallThresholdHundredths}

\* Scores of such a call: those of the sweeps, and 0.
CallScores == Scores \cup {FromDecimal(0)}

\* y_true and y_proba of any length up to maxLen, equal or not, empty or not.
CallLabelVectors(maxLen) == UNION {[1..n -> {0, 1}] : n \in 0..maxLen}
CallScoreVectors(maxLen) == UNION {[1..n -> CallScores] : n \in 0..maxLen}

InitCall ==
    /\ pc = "call"
    /\ \E yt \in CallLabelVectors(MaxCallN), yp \in CallScoreVectors(MaxCallN),
          t \in CallThresholds, cm \in CostMatrices :
          call_args = [y_true |-> yt, y_proba |-> yp,
                       threshold |-> t, cost_matrix |-> cm]
    /\ call_outcome = NoValue
    /\ grid = NoValue
    /\ NoSweep
    /\ NoComparison
    /\ NoCostCall
    /\ NoSegments

MetricsCall ==
    calculate_business_metrics(call_args.y_true, call_args.y_proba,
                               call_args.threshold, call_args.cost_matrix)

\* metrics = calculate_business_metrics(y_true, y_proba, threshold, cost_matrix)
CallReturns ==
    /\ pc = "call"
    /\ ~IsRaised(MetricsCall)
    /\ call_outcome' = MetricsCall
    /\ pc' = "called"
    /\ UNCHANGED <<grid, call_args>>
    /\ UNCHANGED <<sweepVars, compareVars, costVars, segmentVars>>

\* The same call, raising.
CallRaises ==
    /\ pc = "call"
    /\ IsRaised(MetricsCall)
    /\ call_outcome' = MetricsCall
    /\ pc' = "call_raised"
    /\ UNCHANGED <<grid, call_args>>
    /\ UNCHANGED <<sweepVars, compareVars, costVars, segmentVars>>

NextCall ==
    \/ CallReturns
    \/ CallRaises

SpecCall == InitCall /\ [][NextCall]_vars

\* ------------------------------------------------------------------------
\* The segment pipeline: create_value_segments, then calculate_segment_clv
\* or segment_threshold_analysis on one of the two segments
\* ------------------------------------------------------------------------
\* Largest customer table.
MaxRows == 3

\* Monthly charges, in hundredths of the currency unit.
SegmentCharges == {2000, 7035}

\* <<y_true, predicted probability in hundredths>> of a customer.
SegmentPredictions == {<<1, 90>>, <<1, 40>>, <<0, 40>>}

CustomerRows ==
    { [MonthlyCharges |-> c, y_true |-> p[1], proba |-> FromDecimal(p[2])] :
        c \in SegmentCharges, p \in SegmentPredictions }

\* The customer tables of 1..maxLen rows.
CustomerTables(maxLen) == UNION {[1..n -> CustomerRows] : n \in 1..maxLen}

Segments == {"High-Value", "Low-Value"}

\* avg_remaining_months of calculate_segment_clv; 24 is the default.
RemainingMonths == {12, 24}

\* segment_clv of segment_threshold_analysis, in whole currency units.
SegmentClvs == {800, 2400}

\* thresholds of segment_threshold_analysis: the default None, or an array.
ThresholdsArgs == {None, ThresholdGrid[[start |-> 20, end |-> 80, step |-> 20]]}

InitSegment ==
    /\ pc = "population"
    /\ population \in CustomerTables(MaxRows)
    /\ caller_cost_matrix \in CostMatrices
    /\ segmented = NoValue
    /\ clv_outcome = NoValue
    /\ analysis = NoValue
    /\ grid = NoValue
    /\ NoSweep
    /\ NoComparison
    /\ NoCostCall
    /\ NoMetricsCall

\* df_tagged, charge_median = create_value_segments(df)
CreateValueSegments ==
    /\ pc = "population"
    /\ LET call == create_value_segments(population, "MonthlyCharges")
       IN  /\ population' = call.caller_df
           /\ segmented' = call.returned
    /\ pc' = "segmented"
    /\ UNCHANGED <<grid, clv_outcome, caller_cost_matrix, analysis>>
    /\ UNCHANGED <<sweepVars, compareVars, costVars, callVars>>

\* calculate_segment_clv(df_tagged, segment, avg_remaining_months)
CalculateSegmentCLV ==
    /\ pc = "segmented"
    /\ \E segment \in Segments, avg_remaining_months \in RemainingMonths :
          clv_outcome' =
              [ segment |-> segment,
                avg_remaining_months |-> avg_remaining_months,
                outcome |-> calculate_segment_clv(segmented[1], segment,
                                                  avg_remaining_months) ]
    /\ pc' = "segment_clv"
    /\ UNCHANGED <<grid, population, segmented, caller_cost_matrix, analysis>>
    /\ UNCHANGED <<sweepVars, compareVars, costVars, callVars>>

\* segment_threshold_analysis(df_tagged[df_tagged.value_segment == segment],
\*                            'proba', segment_clv, base_cost_matrix, thresholds)
SegmentThresholdAnalysis ==
    /\ pc = "segmented"
    /\ \E segment \in Segments, segment_clv \in SegmentClvs, ts \in ThresholdsArgs :
          LET df_segment == SegmentRows(segmented[1], segment)
              call == segment_threshold_analysis(df_segment, "proba", segment_clv,
                                                 caller_cost_matrix, ts)
          IN  /\ analysis' =
                    [ df_segment |-> df_segment,
                      segment_clv |-> segment_clv,
                      base_cost_matrix |-> caller_cost_matrix,
                      thresholds |-> ts,
                      segment_cost_matrix |-> call.segment_cost_matrix,
                      outcome |-> call.outcome ]
              /\ caller_cost_matrix' = call.caller_cost_matrix
    /\ pc' = "segment_sweep"
    /\ UNCHANGED <<grid, population, segmented, clv_outcome>>
    /\ UNCHANGED <<sweepVars, compareVars, costVars, callVars>>

NextSegment ==
    \/ CreateValueSegments
    \/ CalculateSegmentCLV
    \/ SegmentThresholdAnalysis

SpecSegment == InitSegment /\ [][NextSegment]_vars

\* ------------------------------------------------------------------------
\* Properties
\* ------------------------------------------------------------------------
\* The records calculate_business_metrics has returned so far in this call
\* of threshold_sweep.
Records == {results[k] : k \in 1..Len(results)}

Indices == 1..Len(arg_y_true)

\* Number of indices with the given label and score at or above / below t.
AtOrAbove(label, t) ==
    Cardinality({i \in Indices : arg_y_true[i] = label /\ BigCmp(arg_y_proba[i], t) >= 0})

Below(label, t) ==
    Cardinality({i \in Indices : arg_y_true[i] = label /\ BigCmp(arg_y_proba[i], t) < 0})

\* C1: in every record calculate_business_metrics returns, the four
\* contingency counts add up to the population size N, and
\* Customers_Contacted is TP + FP.
Thm_C1_Conservation ==
    \A r \in Records :
        /\ r.TP + r.FP + r.FN + r.TN = Len(arg_y_true)
        /\ r.Customers_Contacted = r.TP + r.FP

\* C1 witness: a full default-grid table is returned for a population of
\* three in which a row has contacted and uncontacted customers of both
\* kinds of error.
Wit_C1_Conservation ==
    /\ pc = "returned"
    /\ Len(arg_y_true) = 3
    /\ Len(sweep_df) = 17
    /\ \E r \in Records : r.TP > 0 /\ r.FP > 0 /\ r.TN > 0
    /\ \E r \in Records : r.FN > 0 /\ r.FP > 0

\* C2: index i is predicted positive exactly when y_proba[i] >= threshold:
\* a score equal to the threshold is counted in TP or FP, a score strictly
\* below it in FN or TN.
Thm_C2_InclusiveThreshold ==
    \A r \in Records :
        /\ r.TP = AtOrAbove(1, r.Threshold)
        /\ r.FP = AtOrAbove(0, r.Threshold)
        /\ r.FN = Below(1, r.Threshold)
        /\ r.TN = Below(0, r.Threshold)

\* C2 witness: a record whose threshold equals the score of a churner and
\* the score of a non-churner, both counted as contacted.
Wit_C2_InclusiveThreshold ==
    \E r \in Records :
        /\ \E i \in Indices : arg_y_true[i] = 1 /\ arg_y_proba[i] = r.Threshold
        /\ \E i \in Indices : arg_y_true[i] = 0 /\ arg_y_proba[i] = r.Threshold
        /\ r.TP >= 1 /\ r.FP >= 1

\* The scenario of the specification: labels [1,0,1,0,1], scores
\* [0.9,0.2,0.6,0.4,0.8], threshold 0.5, CLV 1200, cost 50, rate 0.25.
ScenarioScores ==
    <<FromDecimal(90), FromDecimal(20), FromDecimal(60), FromDecimal(40),
      FromDecimal(80)>>

ScenarioThreshold == FromDecimal(50)

ScenarioRecord ==
    calculate_business_metrics(<<1, 0, 1, 0, 1>>, ScenarioScores,
                               ScenarioThreshold, get_cost_matrix(1200, 50, 25))

\* C3: in every record, Retention_Cost = Customers_Contacted x
\* RETENTION_COST, Revenue_Saved = TP x RETENTION_SUCCESS_RATE x CLV,
\* Opportunity_Cost = FN x RETENTION_SUCCESS_RATE x CLV and Net_ROI =
\* Revenue_Saved - Retention_Cost (the opportunity cost is not subtracted);
\* the scenario gives Retention_Cost 150, Revenue_Saved 900, Net_ROI 750
\* (money in hundredths).
Thm_C3_MoneyColumns ==
    /\ \A r \in Records :
        /\ r.Retention_Cost = r.Customers_Contacted * arg_cost_matrix.RETENTION_COST * 100
        /\ r.Revenue_Saved = r.TP * arg_cost_matrix.RETENTION_SUCCESS_RATE * arg_cost_matrix.CLV
        /\ r.Opportunity_Cost = r.FN * arg_cost_matrix.RETENTION_SUCCESS_RATE * arg_cost_matrix.CLV
        /\ r.Net_ROI = r.Revenue_Saved - r.Retention_Cost
    /\ LET s == ScenarioRecord
       IN  /\ s.TP = 3 /\ s.FP = 0 /\ s.FN = 0 /\ s.TN = 2
           /\ s.Retention_Cost = 15000
           /\ s.Revenue_Saved = 90000
           /\ s.Net_ROI = 75000

\* C3 witness: a record with missed churners (a positive opportunity cost)
\* and contacted customers, whose Net_ROI is revenue minus retention cost.
Wit_C3_MoneyColumns ==
    \E r \in Records :
        /\ r.FN > 0 /\ r.TP > 0 /\ r.FP > 0
        /\ r.Opportunity_Cost > 0
        /\ r.Net_ROI = r.Revenue_Saved - r.Retention_Cost
        /\ r.Net_ROI # r.Revenue_Saved - r.Retention_Cost - r.Opportunity_Cost

\* The outcome of the call of calculate_business_metrics made for the k-th
\* grid point.
CallOutcome(k) ==
    calculate_business_metrics(arg_y_true, arg_y_proba, calls[k], arg_cost_matrix)

\* C4: for valid inputs calculate_business_metrics returns a record, never
\* an error; Precision is 0 when nobody is contacted and TP/(TP+FP)
\* otherwise; Recall is 0 when y_true has no positive and TP/(TP+FN)
\* otherwise.
Claim_C4_ZeroDivision ==
    \A k \in 1..Len(calls) :
        /\ ~IsRaised(CallOutcome(k))
        /\ LET r == CallOutcome(k)
           IN  /\ r.Customers_Contacted = 0 => r.Precision[1] = 0
               /\ r.TP + r.FN = 0 => r.Recall[1] = 0
               /\ r.Customers_Contacted > 0 =>
                    r.Precision[1] * (r.TP + r.FP) = r.TP * r.Precision[2]
               /\ r.TP + r.FN > 0 =>
                    r.Recall[1] * (r.TP + r.FN) = r.TP * r.Recall[2]

\* C5: threshold_sweep evaluates every grid point for every input: the
\* sweep never aborts, and the table it returns has exactly one row per
\* grid threshold, in grid order.
Claim_C5_EveryGridPoint ==
    /\ pc # "raised"
    /\ pc \in {"returned", "selected", "selection_raised"} =>
         /\ Len(sweep_df) = Len(thresholds)
         /\ \A k \in 1..Len(sweep_df) : sweep_df[k].Threshold = thresholds[k]

\* Number of points start + i * step that lie in [start, end).
ExactCount(g) == ((g.end - g.start) + (g.step - 1)) \div g.step

\* The floats nearest to the points start + i * step, i = 0, 1, ...
ExactPoints ==
    [g \in SweepGridArgs |->
        [k \in 1..(ExactCount(g) + 1) |-> FromDecimal(g.start + (k - 1) * g.step)]]

\* Rounding tolerance for a threshold: 2^-40.
Tolerance == BigPow2(Scale - 40)

Near(a, b) ==
    IF BigLeq(a, b) THEN BigLeq(BigSub(b, a), Tolerance)
    ELSE BigLeq(BigSub(a, b), Tolerance)

\* C6: the thresholds of threshold_sweep(start, end, step) are strictly
\* ascending, begin at start, advance by step (up to rounding) and all lie in
\* [start, end), so that end is never a row and the default grid has 17
\* rows; calculate_business_metrics is called once per grid point in that
\* order and the rows carry the thresholds of the calls.
Claim_C6_HalfOpenGrid ==
    pc # "threshold_sweep" =>
        /\ Len(thresholds) = ExactCount(grid)
        /\ grid = [start |-> 10, end |-> 95, step |-> 5] => Len(thresholds) = 17
        /\ Len(thresholds) > 0 => thresholds[1] = GridFloats[grid].start
        /\ \A k \in 1..Len(thresholds) :
              /\ BigLeq(GridFloats[grid].start, thresholds[k])
              /\ BigLess(thresholds[k], GridFloats[grid].end)
              /\ k <= ExactCount(grid) => Near(thresholds[k], ExactPoints[grid][k])
        /\ \A k \in 1..(Len(thresholds) - 1) :
              BigLess(thresholds[k], thresholds[k + 1])
        /\ calls = SubSeq(thresholds, 1, Len(calls))
        /\ \A k \in 1..Len(results) : results[k].Threshold = calls[k]

\* The part of C6 that does not depend on where the grid ends.
GridAscendingFromStart ==
    pc # "threshold_sweep" =>
        /\ grid = [start |-> 10, end |-> 95, step |-> 5] => Len(thresholds) = 17
        /\ Len(thresholds) > 0 => thresholds[1] = GridFloats[grid].start
        /\ \A k \in 1..Len(thresholds) :
              Near(thresholds[k], ExactPoints[grid][
                     IF k <= ExactCount(grid) THEN k ELSE ExactCount(grid) + 1])
        /\ \A k \in 1..(Len(thresholds) - 1) :
              BigLess(thresholds[k], thresholds[k + 1])
        /\ calls = SubSeq(thresholds, 1, Len(calls))
        /\ \A k \in 1..Len(results) : results[k].Threshold = calls[k]

\* The table threshold_sweep returned, once it has returned.
HasReturned == pc \in {"returned", "selected", "selection_raised"}

\* a <= b for two quotients <<num, den>>.
RatioLeq(a, b) == a[1] * b[2] <= b[1] * a[2]

\* C7: in a table threshold_sweep returns, from each row to the next
\* (increasing threshold) Customers_Contacted does not increase and Recall
\* does not increase.
Thm_C7_Monotone ==
    HasReturned =>
        \A k \in 1..(Len(sweep_df) - 1) :
            /\ sweep_df[k + 1].Customers_Contacted <= sweep_df[k].Customers_Contacted
            /\ RatioLeq(sweep_df[k + 1].Recall, sweep_df[k].Recall)

\* C7 witness: a returned table in which Customers_Contacted and Recall both
\* drop strictly at two different rows.
Wit_C7_Monotone ==
    /\ pc = "returned"
    /\ \E j, k \in 1..(Len(sweep_df) - 1) :
          /\ j < k
          /\ \A i \in {j, k} :
                /\ sweep_df[i + 1].Customers_Contacted < sweep_df[i].Customers_Contacted
                /\ ~RatioLeq(sweep_df[i].Recall, sweep_df[i + 1].Recall)

\* a <= b for two values of the column metric.
ValueLeq(metric, a, b) ==
    IF metric \in {"Precision", "Recall"} THEN RatioLeq(a, b)
    ELSE IF metric = "Threshold" THEN BigCmp(a, b) <= 0
    ELSE a <= b

\* C8: find_optimal_threshold returns a row of the sweep whose metric is the
\* maximum over all rows, and among the rows that share the maximum the
\* first in table order, which is the one with the lowest threshold.
Thm_C8_FirstMaximum ==
    pc = "selected" =>
        \E k \in 1..Len(sweep_df) :
            /\ sweep_df[k] = optimal.row
            /\ \A j \in 1..Len(sweep_df) :
                  /\ ValueLeq(optimal.metric, sweep_df[j][optimal.metric],
                              optimal.row[optimal.metric])
                  /\ ValueLeq(optimal.metric, optimal.row[optimal.metric],
                              sweep_df[j][optimal.metric])
                        => /\ k <= j
                           /\ BigCmp(optimal.row.Threshold, sweep_df[j].Threshold) <= 0

\* C8 witness: the maximum of Net_ROI is shared by a later row, and by no
\* earlier row although one exists.
Wit_C8_FirstMaximum ==
    /\ pc = "selected"
    /\ optimal.metric = "Net_ROI"
    /\ \E k, j \in 1..Len(sweep_df) :
          /\ 1 < k /\ k < j
          /\ sweep_df[k] = optimal.row
          /\ sweep_df[j].Net_ROI = optimal.row.Net_ROI

\* The largest Net_ROI of a table.
MaxNetROI(table) ==
    CHOOSE v \in {table[k].Net_ROI : k \in 1..Len(table)} :
        \A k \in 1..Len(table) : table[k].Net_ROI <= v

\* C9: compare_models selects the first model (Logistic Regression) only
\* when its maximum Net_ROI is strictly greater than the second's; on equal
\* maxima, or when the second's is greater, it selects the second (Random
\* Forest); threshold, roi, sweep and optimal are those of the selected
\* model.
Thm_C9_StrictlyGreaterElseSecond ==
    pc = "compared_models" =>
        /\ best.model = "Logistic Regression"
              <=> MaxNetROI(first_sweep) > MaxNetROI(second_sweep)
        /\ best.model = "Random Forest"
              <=> MaxNetROI(first_sweep) <= MaxNetROI(second_sweep)
        /\ LET selected == IF best.model = "Logistic Regression"
                           THEN first_sweep ELSE second_sweep
           IN  /\ best.sweep = selected
               /\ best.roi = MaxNetROI(selected)
               /\ \E k \in 1..Len(selected) : selected[k] = best.optimal
               /\ best.optimal.Net_ROI = best.roi
               /\ best.threshold = best.optimal.Threshold

\* C9 witness: two different tables with equal maximum Net_ROI, reached at
\* different thresholds, and the second is selected.
Wit_C9_StrictlyGreaterElseSecond ==
    /\ pc = "compared_models"
    /\ first_sweep # second_sweep
    /\ MaxNetROI(first_sweep) = MaxNetROI(second_sweep)
    /\ best.model = "Random Forest"
    /\ best.sweep = second_sweep
    /\ best.threshold # first_sweep[idxmax(first_sweep, "Net_ROI")].Threshold

\* The Net_ROI of the rows of a table at threshold t.
NetROIAt(table, t) ==
    {table[k].Net_ROI : k \in {j \in 1..Len(table) : table[j].Threshold = t}}

\* C10: for two sweeps on the same grid and a shared threshold of that grid,
\* compare_strategies returns segment_total_roi >= single_total_roi, that
\* is improvement >= 0, where single_total_roi adds both segments' Net_ROI
\* at the shared threshold and segment_total_roi adds each segment's own
\* maximum Net_ROI.
Thm_C10_SegmentationNeverWorse ==
    pc = "compared_strategies" =>
        /\ comparison.segment_total_roi >= comparison.single_total_roi
        /\ comparison.improvement >= 0
        /\ comparison.improvement =
              comparison.segment_total_roi - comparison.single_total_roi
        /\ comparison.segment_total_roi =
              MaxNetROI(first_sweep) + MaxNetROI(second_sweep)
        /\ NetROIAt(first_sweep, comparison.single_threshold)
              = {comparison.single_high_roi}
        /\ NetROIAt(second_sweep, comparison.single_threshold)
              = {comparison.single_low_roi}
        /\ comparison.single_total_roi =
              comparison.single_high_roi + comparison.single_low_roi

\* C10 witness: the shared threshold is a threshold of the grid at which
\* neither segment is at its optimum, and segmentation gains strictly.
Wit_C10_SegmentationNeverWorse ==
    /\ pc = "compared_strategies"
    /\ \E k \in 1..Len(ThresholdGrid[grid]) :
          comparison.single_threshold = ThresholdGrid[grid][k]
    /\ comparison.single_high_roi < MaxNetROI(first_sweep)
    /\ comparison.single_low_roi < MaxNetROI(second_sweep)
    /\ comparison.improvement > 0

\* |a - b| <= tol, for non-negative floats.
Within(a, b, tol) ==
    IF BigLeq(a, b) THEN BigLeq(BigSub(b, a), tol)
    ELSE BigLeq(BigSub(a, b), tol)

\* Half the step of grid g.
HalfStep(g) == FDiv(GridFloats[g].step, BigOfInt(2))

\* Some row of the sweeps on the current grid has its Threshold within half
\* a step of t.
WithinHalfStep(t) ==
    \E k \in 1..Len(ThresholdGrid[grid]) :
        Within(t, ThresholdGrid[grid][k], HalfStep(grid))

\* C11: compare_strategies finds the row of the shared threshold by value
\* with tolerance: when best_single_threshold lies within half a step of a
\* Threshold of the sweeps, it returns a comparison and does not fail.
Claim_C11_ToleranceLookup ==
    pc = "raised" => ~WithinHalfStep(comparison.single_threshold)

\* x + y without the rounding: the exact sum, which need not be a float.
SAddExact(x, y) ==
    IF x.neg = y.neg THEN Signed(x.neg, BigAdd(x.mag, y.mag))
    ELSE IF BigLeq(y.mag, x.mag) THEN Signed(x.neg, BigSub(x.mag, y.mag))
    ELSE Signed(y.neg, BigSub(y.mag, x.mag))

\* The float arguments of the call of get_cost_matrix, and clv * rate.
CostArg == SFromDecimal(cost_args.retention_cost)
RateArg == SFromDecimal(cost_args.retention_success_rate)
SavedValue == SMulInt(cost_args.clv, RateArg)

\* The four formulas of the cost matrix m, and the inputs carried unchanged.
CostMatrixFormulas(m) ==
    /\ m.TP = SSub(SavedValue, CostArg)
    /\ m.FP = SNeg(CostArg)
    /\ m.FN = SNeg(SavedValue)
    /\ m.TN = SZero
    /\ m.CLV = cost_args.clv
    /\ m.RETENTION_COST = CostArg
    /\ m.RETENTION_SUCCESS_RATE = RateArg

\* The arguments for which every step of get_cost_matrix is exact: a whole
\* retention_cost and a rate that is a multiple of 1/4.
ExactCostArgs ==
    /\ cost_args.retention_cost % 100 = 0
    /\ cost_args.retention_success_rate % 25 = 0

\* C12 as stated: every cost matrix get_cost_matrix returns has TP = CLV x
\* RETENTION_SUCCESS_RATE - RETENTION_COST, FP = -RETENTION_COST, FN =
\* -(CLV x RETENTION_SUCCESS_RATE), TN = 0 and the three inputs unchanged,
\* and consequently TP + FN = FP.
Claim_C12_CostMatrixIdentity ==
    pc = "cost_matrix" =>
        /\ CostMatrixFormulas(cost_outcome.returned)
        /\ SAdd(cost_outcome.returned.TP, cost_outcome.returned.FN)
              = cost_outcome.returned.FP

\* C12, amended: the four formulas hold in float arithmetic and the inputs
\* are carried unchanged; with exact arguments the net values are the exact
\* ones; TP + FN = FP holds whenever the subtraction CLV x
\* RETENTION_SUCCESS_RATE - RETENTION_COST was exact.
Thm_C12_CostMatrixFormulas ==
    pc = "cost_matrix" =>
        LET m == cost_outcome.returned
        IN  /\ CostMatrixFormulas(m)
            /\ ExactCostArgs =>
                  /\ m.TP = SFromDecimal(cost_args.clv * cost_args.retention_success_rate
                                           - cost_args.retention_cost)
                  /\ m.FP = SFromDecimal(0 - cost_args.retention_cost)
                  /\ m.FN = SFromDecimal(0 - cost_args.clv * cost_args.retention_success_rate)
            /\ m.TP = SAddExact(SavedValue, SNeg(CostArg)) => SAdd(m.TP, m.FN) = m.FP

\* C12 witness: get_cost_matrix(1200, 50, 0.25) has returned TP 250, FP -50,
\* FN -300, and TP + FN = FP.
Wit_C12_CostMatrixFormulas ==
    /\ pc = "cost_matrix"
    /\ cost_args = [clv |-> 1200, retention_cost |-> 5000, retention_success_rate |-> 25]
    /\ cost_outcome.returned.TP = SFromDecimal(25000)
    /\ cost_outcome.returned.FP = SFromDecimal(0 - 5000)
    /\ cost_outcome.returned.FN = SFromDecimal(0 - 30000)
    /\ SAdd(cost_outcome.returned.TP, cost_outcome.returned.FN) = cost_outcome.returned.FP

\* C17: get_cost_matrix returns a cost matrix only when retention_cost >= 0
\* and 0 <= retention_success_rate <= 1, and fails with an error otherwise.
Claim_C17_ArgumentsValidated ==
    pc = "cost_matrix" =>
        IF /\ SLeq(SZero, CostArg)
           /\ SLeq(SZero, RateArg)
           /\ SLeq(RateArg, SFromDecimal(100))
        THEN ~IsRaised(cost_outcome)
        ELSE IsRaised(cost_outcome)

\* The call of calculate_business_metrics has ended, one way or the other.
CallEnded == pc \in {"called", "call_raised"}

\* The float 1.0.
One == FromDecimal(100)

\* threshold lies in [0, 1] (no threshold of the model is negative).
ThresholdInUnitInterval == BigLeq(call_args.threshold, One)

\* C15: calculate_business_metrics rejects malformed input with an error and
\* produces no record: y_true and y_proba of different lengths, either of
\* them empty, or a threshold outside [0, 1].
Claim_C15_InputValidation ==
    (/\ CallEnded
     /\ \/ Len(call_args.y_true) # Len(call_args.y_proba)
        \/ Len(call_args.y_true) = 0
        \/ Len(call_args.y_proba) = 0
        \/ ~ThresholdInUnitInterval)
        => IsRaised(call_outcome)

\* The part of the validation the library calls provide: vectors of
\* different lengths, or empty ones, end in an error.
LengthsAreChecked ==
    (/\ CallEnded
     /\ \/ Len(call_args.y_true) # Len(call_args.y_proba)
        \/ Len(call_args.y_true) = 0)
        => IsRaised(call_outcome)

\* Number of actual positives among the labels of the call.
Positives == Cardinality({i \in 1..Len(call_args.y_true) : call_args.y_true[i] = 1})

\* C19: at threshold 0, for a non-empty prediction set whose scores are all
\* >= 0 (labels all 1 included), calculate_business_metrics returns a record
\* with Customers_Contacted = N, FN = TN = 0 and Precision = (number of
\* y_true = 1) / N.
Claim_C19_BoundaryAtZero ==
    (/\ CallEnded
     /\ Len(call_args.y_true) = Len(call_args.y_proba)
     /\ Len(call_args.y_true) > 0
     /\ call_args.threshold = BigZero)
        => /\ ~IsRaised(call_outcome)
           /\ call_outcome.Customers_Contacted = Len(call_args.y_true)
           /\ call_outcome.FN = 0
           /\ call_outcome.TN = 0
           /\ call_outcome.Precision[1] * Len(call_args.y_true)
                 = Positives * call_outcome.Precision[2]

\* The boundary holds whenever a record is returned, which is whenever some
\* label is 0.
BoundaryAtZeroWhenReturned ==
    (/\ CallEnded
     /\ Len(call_args.y_true) = Len(call_args.y_proba)
     /\ Len(call_args.y_true) > 0
     /\ call_args.threshold = BigZero)
        => IF Positives = Len(call_args.y_true)
           THEN IsRaised(call_outcome)
           ELSE /\ ~IsRaised(call_outcome)
                /\ call_outcome.Customers_Contacted = Len(call_args.y_true)
                /\ call_outcome.FN = 0
                /\ call_outcome.TN = 0
                /\ call_outcome.Precision[1] * Len(call_args.y_true)
                      = Positives * call_outcome.Precision[2]

\* The column names of a BusinessMetricsRecord.
RecordColumns ==
    {"Threshold", "Customers_Contacted", "TP", "FP", "FN", "TN", "Precision",
     "Recall", "Retention_Cost", "Revenue_Saved", "Opportunity_Cost", "Net_ROI"}

\* C18: find_optimal_threshold fails with an error, and returns no record,
\* when the sweep table is empty or the metric name is not a column of the
\* table; on a table with rows and a metric that is a column it returns.
Thm_C18_EmptyOrUnknownMetric ==
    pc \in {"selected", "selection_raised"} =>
        IF Len(sweep_df) = 0 \/ optimal.metric \notin RecordColumns
        THEN /\ pc = "selection_raised"
             /\ DOMAIN optimal = {"metric", "raised"}
        ELSE /\ pc = "selected"
             /\ DOMAIN optimal = {"metric", "row"}

\* C18 witness: the sweep over a grid without points has returned a table
\* without rows, and find_optimal_threshold on it for Net_ROI has raised.
Wit_C18_EmptyOrUnknownMetric ==
    /\ pc = "selection_raised"
    /\ Len(sweep_df) = 0
    /\ optimal.metric = "Net_ROI"
    /\ optimal.raised = "KeyError"

\* ------------------------------------------------------------------------
\* segment_strategy.py: the segments
\* ------------------------------------------------------------------------
\* create_value_segments has returned.
IsSegmented == pc \in {"segmented", "segment_clv", "segment_sweep"}

\* The charges of the table, sorted ascending.
RECURSIVE SortedFrom(_, _)
SortedFrom(values, k) ==
    IF k > Len(values) THEN << >>
    ELSE <<KthSmallest(values, k)>> \o SortedFrom(values, k + 1)

\* Twice the median of the charges, read off the sorted column.
TwiceMedian(values) ==
    LET sorted == SortedFrom(values, 1)
        n == Len(sorted)
    IN  IF n % 2 = 1 THEN 2 * sorted[(n + 1) \div 2]
        ELSE sorted[n \div 2] + sorted[(n \div 2) + 1]

EmptySegmentCall ==
    /\ pc = "segment_clv"
    /\ Len(SegmentRows(segmented[1], clv_outcome.segment)) = 0

\* C16: calculate_segment_clv on a segment without customers ends in an
\* error.
Claim_C16_EmptySegmentIsError ==
    EmptySegmentCall => IsRaised(clv_outcome.outcome)

\* What the code does on such a segment: it returns NaN.
EmptySegmentGivesNaN ==
    EmptySegmentCall => clv_outcome.outcome = Returned(NaN)

\* On a segment with customers the call returns the mean charge times the
\* remaining months.
SegmentClvIsMeanTimesMonths ==
    (pc = "segment_clv" /\ ~EmptySegmentCall) =>
        LET rows == SegmentRows(segmented[1], clv_outcome.segment)
            value == clv_outcome.outcome.returned
        IN  value[1] * Len(rows) =
                SumFrom(Column(rows, "MonthlyCharges"), 1)
                    * clv_outcome.avg_remaining_months * value[2]

\* ------------------------------------------------------------------------
\* segment_strategy.py: the segment cost matrix and the segment sweep
\* ------------------------------------------------------------------------
\* C13: the cost matrix segment_threshold_analysis sweeps with has CLV =
\* segment_clv, TP = segment_clv x base rate - base cost and FN =
\* -(segment_clv x base rate); its RETENTION_COST, RETENTION_SUCCESS_RATE,
\* FP and TN are those of the base matrix; and the caller's base matrix is
\* after the call what it was before.  (Money in hundredths, the rate in
\* hundredths, CLV and cost in whole units.)
Thm_C13_SegmentMatrixIsCopy ==
    pc = "segment_sweep" =>
        LET base == analysis.base_cost_matrix
            m == analysis.segment_cost_matrix
        IN  /\ DOMAIN m = DOMAIN base
            /\ m.CLV = analysis.segment_clv
            /\ m.TP = (analysis.segment_clv * base.RETENTION_SUCCESS_RATE)
                        - (base.RETENTION_COST * 100)
            /\ m.FN = 0 - (analysis.segment_clv * base.RETENTION_SUCCESS_RATE)
            /\ m.RETENTION_COST = base.RETENTION_COST
            /\ m.RETENTION_SUCCESS_RATE = base.RETENTION_SUCCESS_RATE
            /\ m.FP = base.FP
            /\ m.TN = base.TN
            /\ caller_cost_matrix = base

\* A segment was analysed with a CLV that differs from the base one, so
\* that CLV, TP and FN of the segment matrix all differ from the base
\* values.
Wit_C13_SegmentMatrixIsCopy ==
    /\ pc = "segment_sweep"
    /\ analysis.segment_cost_matrix.CLV # analysis.base_cost_matrix.CLV
    /\ analysis.segment_cost_matrix.TP # analysis.base_cost_matrix.TP
    /\ analysis.segment_cost_matrix.FN # analysis.base_cost_matrix.FN
    /\ ~IsRaised(analysis.outcome)

====
